---- MODULE Spec2Model ----
(***************************************************************************)
(* Model of hw1.py: date-indexed queries over the wide-format table of     *)
(* confirmed cases (one row per country/region, one column per date).      *)
(*                                                                         *)
(* Python strings that the code builds, slices, parses or rewrites (the    *)
(* date keys) are sequences of one-character strings, so that str(),       *)
(* slicing, strptime, strftime and re.sub are modelled by what they do.    *)
(* Country labels are only compared and sorted, and stay TLA+ strings.     *)
(* A call's outcome is a record: [kind |-> "return", value |-> v] or       *)
(* [kind |-> "raise", exc |-> e] with e the Python exception class; keys is *)
(* the list of date columns the call asked the table for.                  *)
(***************************************************************************)
EXTENDS Integers, Sequences, FiniteSets, TLC

VARIABLES table, call, ret, keys

vars == <<table, call, ret, keys>>

----------------------------------------------------------------------------
(* Bounds of the model *)

MaxRows == 2
MaxCases == 1
TopRows == 7

(* Constants of the program *)

MinDay == 1
MaxDay == 31
MinMonth == 1
MaxMonth == 12
MinYear == 2000
MaxYear == 2020
HeadN == 5

(* The spec's names for the exceptions the code raises *)

InvalidDateError == "ValueError"
DateNotFoundError == "KeyError"
CountryNotFoundError == "IndexError"

Return(v) == [kind |-> "return", value |-> v]
Raise(e) == [kind |-> "raise", exc |-> e]

----------------------------------------------------------------------------
(* Python string primitives *)

Slash == <<"/">>

DigitChars == <<"0", "1", "2", "3", "4", "5", "6", "7", "8", "9">>

DigitVal(c) == (CHOOSE i \in 1..10 : DigitChars[i] = c) - 1

IsDigit(c) == \E i \in 1..10 : DigitChars[i] = c

(* str(n) for an int n >= 0: decimal digits, no padding *)
RECURSIVE str(_)
str(n) == IF n < 10 THEN <<DigitChars[n + 1]>>
          ELSE str(n \div 10) \o <<DigitChars[(n % 10) + 1]>>

(* s[k:] for a Python string s, k >= 0 (0-based) *)
SliceFrom(s, k) == SubSeq(s, k + 1, Len(s))

(* int(s) for a string of digits *)
RECURSIVE int(_)
int(s) == IF Len(s) = 0 THEN 0
          ELSE 10 * int(SubSeq(s, 1, Len(s) - 1)) + DigitVal(s[Len(s)])

(* "%02d" % n, the form strftime gives %m, %d and %y *)
Pad2(n) == IF n < 10 THEN <<"0">> \o str(n) ELSE str(n)

----------------------------------------------------------------------------
(* get_date_str, lines 17-20 *)

InBounds(day, month, year) ==
    /\ MinDay <= day /\ day <= MaxDay
    /\ MinMonth <= month /\ month <= MaxMonth
    /\ MinYear <= year /\ year <= MaxYear

(* The same function with the upper bound of day exclusive *)
get_date_str_exclusive(day, month, year) ==
    IF ~(InBounds(day, month, year) /\ day < MaxDay)
    THEN Raise("ValueError")
    ELSE Return(str(month) \o Slash \o str(day) \o Slash \o SliceFrom(str(year), 2))

get_date_str(day, month, year) ==
    IF ~InBounds(day, month, year)
    THEN Raise("ValueError")
    ELSE Return(str(month) \o Slash \o str(day) \o Slash \o SliceFrom(str(year), 2))

----------------------------------------------------------------------------
(* The date arithmetic of no_new_cases_count, lines 79-85 *)

(* The fields of s between the "/" separators *)
RECURSIVE Fields(_)
Fields(s) ==
    IF \A i \in 1..Len(s) : s[i] # "/"
    THEN <<s>>
    ELSE LET k == CHOOSE i \in 1..Len(s) :
                      s[i] = "/" /\ \A j \in 1..(i - 1) : s[j] # "/"
         IN <<SubSeq(s, 1, k - 1)>> \o Fields(SubSeq(s, k + 1, Len(s)))

AllDigits(f) == \A i \in 1..Len(f) : IsDigit(f[i])

IsLeap(y) == y % 4 = 0 /\ (y % 100 # 0 \/ y % 400 = 0)

DaysInMonth(m, y) ==
    IF m = 2 THEN (IF IsLeap(y) THEN 29 ELSE 28)
    ELSE IF m \in {4, 6, 9, 11} THEN 30 ELSE 31

(* datetime.strptime(s, '%m/%d/%y'): %m and %d take one or two digits, %y   *)
(* exactly two, read in 1969..2068; a day the month does not have is a      *)
(* ValueError like a string that does not match the format.                 *)
strptime(s) ==
    LET f == Fields(s) IN
    IF \/ Len(f) # 3
       \/ \E i \in 1..Len(f) : ~AllDigits(f[i])
       \/ Len(f[1]) \notin {1, 2} \/ Len(f[2]) \notin {1, 2} \/ Len(f[3]) # 2
    THEN Raise("ValueError")
    ELSE LET m == int(f[1])
             d == int(f[2])
             yy == int(f[3])
             y == IF yy < 69 THEN 2000 + yy ELSE 1900 + yy
         IN IF m \notin 1..12 \/ d \notin 1..31
            THEN Raise("ValueError")
            ELSE IF d > DaysInMonth(m, y)
            THEN Raise("ValueError")
            ELSE Return([year |-> y, month |-> m, day |-> d])

(* dt - timedelta(days=1) *)
MinusOneDay(dt) ==
    IF dt.day > 1 THEN [dt EXCEPT !.day = dt.day - 1]
    ELSE IF dt.month > 1
    THEN [dt EXCEPT !.month = dt.month - 1,
                    !.day = DaysInMonth(dt.month - 1, dt.year)]
    ELSE [year |-> dt.year - 1, month |-> 12, day |-> 31]

(* dt.strftime('%m/%d/%y') *)
strftime(dt) ==
    Pad2(dt.month) \o Slash \o Pad2(dt.day) \o Slash \o Pad2(dt.year % 100)

(* re.sub(r"^0", "", s) *)
StripLeadingZero(s) == IF Len(s) > 0 /\ s[1] = "0" THEN Tail(s) ELSE s

(* re.sub(r"/0", "/", s): every occurrence, left to right *)
RECURSIVE StripSlashZero(_)
StripSlashZero(s) ==
    IF Len(s) = 0 THEN s
    ELSE IF Len(s) >= 2 /\ s[1] = "/" /\ s[2] = "0"
    THEN Slash \o StripSlashZero(SubSeq(s, 3, Len(s)))
    ELSE <<s[1]>> \o StripSlashZero(Tail(s))

(* Lines 83-85: the key of the day before the one `date` names *)
prev_date_of(date) ==
    LET parsed == strptime(date) IN
    IF parsed.kind = "raise" THEN parsed
    ELSE Return(StripSlashZero(StripLeadingZero(strftime(MinusOneDay(parsed.value)))))

----------------------------------------------------------------------------
(* The DataFrame confirmed_cases: its date columns, in order, and its rows,  *)
(* in order; a row is its Country/Region label and one cell per date column. *)

HasColumn(t, key) == \E i \in 1..Len(t.columns) : t.columns[i] = key

ColIdx(t, key) == CHOOSE i \in 1..Len(t.columns) : t.columns[i] = key

(* df[key] of one row *)
Cell(t, row, key) == row.cells[ColIdx(t, key)]

(* df.loc[df["Country/Region"] == name]: the matching rows, in table order *)
RowsOf(t, name) == SelectSeq(t.rows, LAMBDA r : r.label = name)

(* poland_cases_by_date, lines 36-40, for the label the code filters on *)
(* The same function taking the last matching row *)
cases_last_row(t, name, day, month, year) ==
    LET date == get_date_str(day, month, year)
        poland_data == RowsOf(t, name)
    IN IF date.kind = "raise" THEN date
       ELSE IF ~HasColumn(t, date.value) THEN Raise("KeyError")
       ELSE IF Len(poland_data) = 0 THEN Raise("IndexError")
       ELSE Return(Cell(t, poland_data[Len(poland_data)], date.value))

(* The same function with the empty selection tested before the column *)
cases_rows_first(t, name, day, month, year) ==
    LET date == get_date_str(day, month, year)
        poland_data == RowsOf(t, name)
    IN IF date.kind = "raise" THEN date
       ELSE IF Len(poland_data) = 0 THEN Raise("IndexError")
       ELSE IF ~HasColumn(t, date.value) THEN Raise("KeyError")
       ELSE Return(Cell(t, poland_data[1], date.value))

cases_by_date(t, name, day, month, year) ==
    LET date == get_date_str(day, month, year)
        poland_data == RowsOf(t, name)
    IN IF date.kind = "raise" THEN date
       ELSE IF ~HasColumn(t, date.value) THEN Raise("KeyError")
       ELSE IF Len(poland_data) = 0 THEN Raise("IndexError")
       ELSE Return(Cell(t, poland_data[1], date.value))

poland_cases_by_date(t, day, month, year) ==
    cases_by_date(t, "Poland", day, month, year)

(* The columns lines 40 and 59 select: [date], when get_date_str returns *)
date_keys(day, month, year) ==
    LET date == get_date_str(day, month, year)
    IN IF date.kind = "raise" THEN <<>> ELSE <<date.value>>

----------------------------------------------------------------------------
(* top5_countries_by_date, lines 56-61 *)

(* The labels in the order groupby gives its groups: sorted *)
LabelOrder == <<"China", "France", "Iran", "Italy", "Poland", "Spain">>

RECURSIVE SumCells(_, _, _)
SumCells(t, rows, key) ==
    IF Len(rows) = 0 THEN 0
    ELSE Cell(t, Head(rows), key) + SumCells(t, Tail(rows), key)

(* The grouping with the first row of a label standing for the label *)
groupby_first(t, key) ==
    LET present == SelectSeq(LabelOrder, LAMBDA l : Len(RowsOf(t, l)) > 0)
    IN [i \in 1..Len(present) |->
           [label |-> present[i], total |-> Cell(t, RowsOf(t, present[i])[1], key)]]

(* df[[country, date]].groupby([country]).sum(): one group per label present, *)
(* in sorted label order, with the sum of the date column over its rows       *)
groupby_sum(t, key) ==
    LET present == SelectSeq(LabelOrder, LAMBDA l : Len(RowsOf(t, l)) > 0)
    IN [i \in 1..Len(present) |->
           [label |-> present[i], total |-> SumCells(t, RowsOf(t, present[i]), key)]]

(* sort_values(by=date, ascending=False) with the default kind, quicksort,   *)
(* which is not stable: every order of the groups with non-increasing totals *)
(* is a possible outcome; groups with equal totals come in any order.        *)
RECURSIVE Orderings(_, _)
Orderings(groups, todo) ==
    IF todo = {} THEN {<<>>}
    ELSE LET top == {i \in todo : \A j \in todo : groups[j].total <= groups[i].total}
         IN UNION {{<<groups[i]>> \o rest : rest \in Orderings(groups, todo \ {i})}
                   : i \in top}

sort_values(groups) == Orderings(groups, 1..Len(groups))

(* .head(5) *)
head(ranking) ==
    SubSeq(ranking, 1, IF Len(ranking) < HeadN THEN Len(ranking) ELSE HeadN)

(* list(ranking.index) *)
index(ranking) == [i \in 1..Len(ranking) |-> ranking[i].label]

(* The outcomes the call can have *)
top5_countries_by_date(t, day, month, year) ==
    LET date == get_date_str(day, month, year)
    IN IF date.kind = "raise" THEN {date}
       ELSE IF ~HasColumn(t, date.value) THEN {Raise("KeyError")}
       ELSE {Return(index(head(ranking))) :
                 ranking \in sort_values(groupby_sum(t, date.value))}

----------------------------------------------------------------------------
(* no_new_cases_count, lines 79-88 *)

(* The count of the rows whose value rose only *)
RECURSIVE CountIncreased(_, _, _, _)
CountIncreased(t, rows, key, prev) ==
    IF Len(rows) = 0 THEN 0
    ELSE (IF Cell(t, Head(rows), key) > Cell(t, Head(rows), prev) THEN 1 ELSE 0)
         + CountIncreased(t, Tail(rows), key, prev)

RECURSIVE CountChanged(_, _, _, _)
CountChanged(t, rows, key, prev) ==
    IF Len(rows) = 0 THEN 0
    ELSE (IF Cell(t, Head(rows), key) # Cell(t, Head(rows), prev) THEN 1 ELSE 0)
         + CountChanged(t, Tail(rows), key, prev)

(* The columns line 86 selects: [date, prev_date], when both are computed *)
no_new_cases_keys(day, month, year) ==
    LET date == get_date_str(day, month, year)
    IN IF date.kind = "raise" THEN <<>>
       ELSE LET prev_date == prev_date_of(date.value)
            IN IF prev_date.kind = "raise" THEN <<>>
               ELSE <<date.value, prev_date.value>>

no_new_cases_count(t, day, month, year) ==
    LET date == get_date_str(day, month, year)
    IN IF date.kind = "raise" THEN date
       ELSE LET prev_date == prev_date_of(date.value)
            IN IF prev_date.kind = "raise" THEN prev_date
               ELSE IF ~HasColumn(t, date.value) \/ ~HasColumn(t, prev_date.value)
               THEN Raise("KeyError")
               ELSE Return(CountChanged(t, t.rows, date.value, prev_date.value))

----------------------------------------------------------------------------
(* The table as pd.read_csv loads it (line 14): the header labels of the    *)
(* date columns and the rows of the file.                                    *)

HeaderKey(month, day, yy) == str(month) \o Slash \o str(day) \o Slash \o yy

(* Two consecutive days of the series, across a month boundary of 2020 *)
Series2020 == <<HeaderKey(2, 29, <<"2", "0">>), HeaderKey(3, 1, <<"2", "0">>)>>

(* Two consecutive days across a year boundary before 2010 *)
Series2005 == <<HeaderKey(12, 31, <<"0", "4">>), HeaderKey(1, 1, <<"0", "5">>)>>

SeriesOneDay == <<HeaderKey(3, 7, <<"2", "0">>)>>

RowSet(series, labels) ==
    [label : labels, cells : [1..Len(series) -> 0..MaxCases]]

Tables(series, labels, maxRows) ==
    UNION {{[columns |-> series, rows |-> rows] :
               rows \in [1..r -> RowSet(series, labels)]} : r \in 0..maxRows}

(* Tables whose labels run through LabelOrder forwards or backwards, so that *)
(* more than HeadN distinct labels and a repeated label both occur           *)
CycleLabel(step, i) == LabelOrder[((step * (i - 1)) % Len(LabelOrder)) + 1]

CycleTables(series, maxRows) ==
    UNION {{[columns |-> series,
             rows |-> [i \in 1..r |-> [label |-> CycleLabel(step, i), cells |-> c[i]]]] :
               c \in [1..r -> [1..Len(series) -> 0..MaxCases]]} :
           r \in 0..maxRows, step \in {1, Len(LabelOrder) - 1}}

QueryDates ==
    {<<29, 2, 2020>>, <<1, 3, 2020>>, <<31, 2, 2020>>, <<1, 1, 2005>>, <<0, 3, 2020>>}

AllDates ==
    ((MinDay - 1)..(MaxDay + 1)) \X ((MinMonth - 1)..(MaxMonth + 1))
        \X ((MinYear - 1)..(MaxYear + 1))

TopDates == {<<7, 3, 2020>>, <<8, 3, 2020>>, <<7, 13, 2020>>}

Called(op, a) == [op |-> op, day |-> a[1], month |-> a[2], year |-> a[3]]

(* The arguments of the call before, again *)
SameArgs == {<<call.day, call.month, call.year>>}

NoCall == [op |-> "none", day |-> 0, month |-> 0, year |-> 0]

NoRet == [kind |-> "none"]

Init ==
    /\ table \in Tables(Series2020, {"Poland", "China"}, MaxRows)
                 \cup Tables(Series2005, {"Poland", "China"}, MaxRows)
    /\ call = NoCall
    /\ ret = NoRet
    /\ keys = <<>>

(* One table and every date triple around the bounds get_date_str checks,  *)
(* as the arguments of the calls to come                                    *)
InitDate ==
    /\ table = [columns |-> Series2020,
                rows |-> <<[label |-> "Poland", cells |-> <<0, 1>>]>>]
    /\ \E a \in AllDates : call = Called("none", a)
    /\ ret = NoRet
    /\ keys = <<>>

InitTop ==
    /\ table \in CycleTables(SeriesOneDay, TopRows)
    /\ \E a \in TopDates : call = Called("none", a)
    /\ ret = NoRet
    /\ keys = <<>>

----------------------------------------------------------------------------
(* One action per function of the module: the call with its arguments and   *)
(* the value it returns or the exception it raises.                          *)

CallGetDateStr(dates) ==
    \E a \in dates :
        /\ call' = Called("get_date_str", a)
        /\ ret' = get_date_str(a[1], a[2], a[3])
        /\ keys' = <<>>
        /\ table' = table

CallPolandCases(dates) ==
    \E a \in dates :
        /\ call' = Called("poland_cases_by_date", a)
        /\ ret' = poland_cases_by_date(table, a[1], a[2], a[3])
        /\ keys' = date_keys(a[1], a[2], a[3])
        /\ table' = table

(* The same call with the rows of the table itself reordered *)
CallTop5InPlace(dates) ==
    \E a \in dates :
        /\ call' = Called("top5_countries_by_date", a)
        /\ ret' \in top5_countries_by_date(table, a[1], a[2], a[3])
        /\ keys' = date_keys(a[1], a[2], a[3])
        /\ table' = [table EXCEPT !.rows =
                         [i \in 1..Len(table.rows) |->
                             table.rows[Len(table.rows) + 1 - i]]]

CallTop5(dates) ==
    \E a \in dates :
        /\ call' = Called("top5_countries_by_date", a)
        /\ ret' \in top5_countries_by_date(table, a[1], a[2], a[3])
        /\ keys' = date_keys(a[1], a[2], a[3])
        /\ table' = table

CallNoNewCases(dates) ==
    \E a \in dates :
        /\ call' = Called("no_new_cases_count", a)
        /\ ret' = no_new_cases_count(table, a[1], a[2], a[3])
        /\ keys' = no_new_cases_keys(a[1], a[2], a[3])
        /\ table' = table

Next ==
    \/ CallPolandCases(QueryDates)
    \/ CallTop5(QueryDates)
    \/ CallNoNewCases(QueryDates)

Spec == Init /\ [][Next]_vars

NextDate ==
    \/ CallGetDateStr(SameArgs)
    \/ CallPolandCases(SameArgs)
    \/ CallTop5(SameArgs)
    \/ CallNoNewCases(SameArgs)

SpecDate == InitDate /\ [][NextDate]_vars

(* One call of top5_countries_by_date with the arguments drawn *)
ApplyTop5 == call.op = "none" /\ CallTop5(SameArgs)

NextTop == ApplyTop5

SpecTop == InitTop /\ [][NextTop]_vars

----------------------------------------------------------------------------
(* Vocabulary of the properties, written from the table and the calendar    *)
(* and not from the functions above                                          *)

ArgsInBounds ==
    /\ call.day \in 1..31
    /\ call.month \in 1..12
    /\ call.year \in 2000..2020

(* "{month}/{day}/{year mod 100}" with no leading zero on any component *)
UnpaddedKey(day, month, year) ==
    str(month) \o <<"/">> \o str(day) \o <<"/">> \o str(year % 100)

MonthLength(m, y) ==
    CASE m \in {1, 3, 5, 7, 8, 10, 12} -> 31
      [] m \in {4, 6, 9, 11} -> 30
      [] OTHER -> IF (y % 4 = 0 /\ y % 100 # 0) \/ y % 400 = 0 THEN 29 ELSE 28

IsCalendarDate(day, month, year) ==
    month \in 1..12 /\ day >= 1 /\ day <= MonthLength(month, year)

(* The calendar day before <<day, month, year>>, as <<day, month, year>> *)
DayBefore(day, month, year) ==
    IF day > 1 THEN <<day - 1, month, year>>
    ELSE IF month > 1 THEN <<MonthLength(month - 1, year), month - 1, year>>
    ELSE <<31, 12, year - 1>>

IsColumn(key) == \E i \in 1..Len(table.columns) : table.columns[i] = key

ColumnOf(key) == CHOOSE i \in 1..Len(table.columns) : table.columns[i] = key

RowIdx == 1..Len(table.rows)

RowsLabelled(l) == {i \in RowIdx : table.rows[i].label = l}

FirstRow(l) == CHOOSE i \in RowsLabelled(l) : \A j \in RowsLabelled(l) : i <= j

LabelsPresent == {table.rows[i].label : i \in RowIdx}

RECURSIVE SumOver(_, _)
SumOver(rowset, c) ==
    IF rowset = {} THEN 0
    ELSE LET i == CHOOSE j \in rowset : TRUE
         IN table.rows[i].cells[c] + SumOver(rowset \ {i}, c)

(* The aggregated count of a label at a column: the sum over all its rows *)
Aggregate(l, c) == SumOver(RowsLabelled(l), c)

Min(a, b) == IF a < b THEN a ELSE b

----------------------------------------------------------------------------
(* C1: for every day in 1..31, month in 1..12 and year in 2000..2020,       *)
(* format_date returns exactly "{month}/{day}/{year mod 100}" with no        *)
(* leading zero on any of the three components, the year included.           *)
C1_FormatUnpadded ==
    (call.op = "get_date_str" /\ ArgsInBounds)
        => ret = Return(UnpaddedKey(call.day, call.month, call.year))

(* C2: top_n_countries breaks ties by first appearance: of two labels with  *)
(* the same summed count at the queried date, the one whose first row comes  *)
(* earlier in the table appears earlier in the result, and is the one kept   *)
(* when the tie straddles the cut-off.                                       *)
C2_TiesByFirstAppearance ==
    (call.op = "top5_countries_by_date" /\ ret.kind = "return")
        => LET res == ret.value
               c == ColumnOf(keys[1])
               returned == {res[i] : i \in 1..Len(res)}
           IN /\ \A i, j \in 1..Len(res) :
                     (i < j /\ Aggregate(res[i], c) = Aggregate(res[j], c))
                         => FirstRow(res[i]) < FirstRow(res[j])
              /\ \A l \in LabelsPresent \ returned : \A j \in 1..Len(res) :
                     Aggregate(l, c) = Aggregate(res[j], c)
                         => FirstRow(res[j]) < FirstRow(l)

(* C3: for every table and every date whose key is a column, the top-n call *)
(* returns distinct labels of the table, min(n, number of distinct labels)   *)
(* of them, with non-increasing aggregated counts (sums over all rows of a   *)
(* label) along the result, and no label left out has a larger aggregated    *)
(* count than a label returned.                                              *)
C3_TopNByAggregate ==
    (call.op = "top5_countries_by_date" /\ Len(keys) = 1 /\ IsColumn(keys[1]))
        => /\ ret.kind = "return"
           /\ LET res == ret.value
                  c == ColumnOf(keys[1])
                  returned == {res[i] : i \in 1..Len(res)}
              IN /\ returned \subseteq LabelsPresent
                 /\ \A i, j \in 1..Len(res) : i # j => res[i] # res[j]
                 /\ Len(res) = Min(5, Cardinality(LabelsPresent))
                 /\ \A i \in 1..(Len(res) - 1) :
                        Aggregate(res[i], c) >= Aggregate(res[i + 1], c)
                 /\ \A l \in LabelsPresent \ returned : \A j \in 1..Len(res) :
                        Aggregate(l, c) <= Aggregate(res[j], c)

(* C3 witness: more labels than the cut-off, a label with two rows that both *)
(* count, and a result of five labels that starts with that label.           *)
C3_Witness ==
    /\ call.op = "top5_countries_by_date" /\ ret.kind = "return"
    /\ Cardinality(LabelsPresent) = 6
    /\ Len(ret.value) = 5
    /\ Cardinality(RowsLabelled(ret.value[1])) = 2
    /\ Aggregate(ret.value[1], 1) = 2
    /\ Aggregate(ret.value[5], 1) = 0

(* C4: when several rows share the label, cases_for_country returns the     *)
(* cell at the date of the first such row in table order, not the sum over   *)
(* those rows and not the value of a later row.                              *)
C4_FirstRowValue ==
    (call.op = "poland_cases_by_date" /\ ret.kind = "return")
        => /\ RowsLabelled("Poland") # {}
           /\ ret.value = table.rows[FirstRow("Poland")].cells[ColumnOf(keys[1])]

(* C4 witness: two rows of the label; the value returned is neither their   *)
(* sum (the count the ranking uses) nor the later row's value.               *)
C4_Witness ==
    /\ call.op = "poland_cases_by_date" /\ ret.kind = "return"
    /\ Cardinality(RowsLabelled("Poland")) = 2
    /\ ret.value # Aggregate("Poland", ColumnOf(keys[1]))
    /\ \E i \in RowsLabelled("Poland") :
           i # FirstRow("Poland") /\ ret.value # table.rows[i].cells[ColumnOf(keys[1])]

(* C5: for every valid date D whose calendar predecessor also lies in       *)
(* 2000..2020, the previous-day key changed_count looks up equals the key    *)
(* format_date produces for D-1, in every year of the range.                 *)
C5_PrevKeyIsKeyOfDayBefore ==
    (/\ call.op = "no_new_cases_count"
     /\ ArgsInBounds
     /\ IsCalendarDate(call.day, call.month, call.year)
     /\ DayBefore(call.day, call.month, call.year)[3] >= 2000)
        => LET p == DayBefore(call.day, call.month, call.year)
           IN /\ Len(keys) = 2
              /\ Return(keys[2]) = get_date_str(p[1], p[2], p[3])

C7_MissingColumnIsDateNotFound ==
    (/\ call.op = "no_new_cases_count"
     /\ ArgsInBounds
     /\ \/ ~IsColumn(get_date_str(call.day, call.month, call.year).value)
        \/ \E i \in 1..Len(keys) : ~IsColumn(keys[i]))
        => ret = Raise(DateNotFoundError)

(* C8 as stated: cases_for_country fails with CountryNotFoundError when no  *)
(* row has the label, with DateNotFoundError when the date is within bounds  *)
(* but its key is not a column, and with InvalidDateError when day, month or *)
(* year is out of bounds.                                                    *)
C8_ErrorPerCondition ==
    call.op = "poland_cases_by_date"
        => /\ RowsLabelled("Poland") = {} => ret = Raise(CountryNotFoundError)
           /\ (ArgsInBounds /\ Len(keys) = 1 /\ ~IsColumn(keys[1]))
                  => ret = Raise(DateNotFoundError)
           /\ ~ArgsInBounds => ret = Raise(InvalidDateError)

(* C8 amended: cases_for_country fails with InvalidDateError when day,      *)
(* month or year is out of bounds, with DateNotFoundError when the date is   *)
(* within bounds but its key is not a column, and with CountryNotFoundError  *)
(* when no row has the label and the date's key is a column; the three       *)
(* outcomes are distinct, no value is returned in any of them, and in every  *)
(* other case a value is returned.                                           *)
C8_ErrorByPrecedence ==
    call.op = "poland_cases_by_date"
        => LET missing == Len(keys) = 1 /\ ~IsColumn(keys[1])
           IN /\ ~ArgsInBounds => ret = Raise(InvalidDateError)
              /\ (ArgsInBounds /\ missing) => ret = Raise(DateNotFoundError)
              /\ (ArgsInBounds /\ ~missing /\ RowsLabelled("Poland") = {})
                     => ret = Raise(CountryNotFoundError)
              /\ (ArgsInBounds /\ ~missing /\ RowsLabelled("Poland") # {})
                     => ret.kind = "return"
              /\ Cardinality({InvalidDateError, DateNotFoundError,
                              CountryNotFoundError}) = 3

(* C8 witness: the label is absent, the date's key is a column, and the     *)
(* call failed with CountryNotFoundError.                                    *)
C8_Witness ==
    /\ call.op = "poland_cases_by_date"
    /\ RowsLabelled("Poland") = {} /\ Len(table.rows) > 0
    /\ Len(keys) = 1 /\ IsColumn(keys[1])
    /\ ret = Raise(CountryNotFoundError)

(* C9: format_date fails with InvalidDateError exactly when day is outside  *)
(* 1..31, month outside 1..12 or year outside 2000..2020, and succeeds for   *)
(* every other triple; it does not check the length of the month.            *)
C9_FailsExactlyOutOfBounds ==
    call.op = "get_date_str"
        => /\ ~ArgsInBounds => ret = Raise(InvalidDateError)
           /\ ArgsInBounds => ret.kind = "return"

(* C9 witness: day 31 of month 2 of 2020 is accepted and yields a key. *)
C9_Witness ==
    /\ call = Called("get_date_str", <<31, 2, 2020>>)
    /\ ret.kind = "return"
    /\ Len(ret.value) > 0

====
